---- MODULE Spec2Model ----
(***************************************************************************)
(* Supervision and bridging layer of tox-node (src/src/main.rs): the onion *)
(* bridge between the UDP (DHT) and TCP (relay) transports, the futures    *)
(* each transport is composed of, and the root select that main() hands to *)
(* the runtime, preceded by the start-up of main(): the identity keys, the *)
(* socket and listener binds, the version word.  The DHT / relay servers   *)
(* and the socket are external: they appear as the events they deliver (a  *)
(* datagram, a queued packet, an onion envelope, a failure).               *)
(***************************************************************************)
EXTENDS Integers, Sequences, FiniteSets, TLC

\* ------------------------------------------------------------------ bounds
MaxListeners == 2      \* most TCP addresses of a configuration
MaxInputs == 2         \* most events the environment delivers in one run
MaxStarts == 2         \* most times the process is started on the same keys file

\* ------------------------------------------------------- future outcomes
\* What a future (futures 0.1, Item = (), Error = Error) is to its parent.
Pending == <<"pending", "", 0>>
Ok == <<"ok", "", 0>>
Dropped == <<"dropped", "", 0>>      \* cancelled: its owner resolved first
Absent == <<"absent", "", 0>>        \* never constructed in this configuration
Err(who, i) == <<"err", who, i>>
IsErr(o) == o[1] = "err"
IsDone(o) == o[1] \in {"ok", "err"}

ListenerIds == 1..MaxListeners

\* ------------------------------------------------------------ addresses
V4(ip, port) == [fam |-> "V4", ip |-> ip, port |-> port]
V6(ip, port) == [fam |-> "V6", ip |-> ip, port |-> port]
NoAddr == [fam |-> "none", ip |-> <<>>, port |-> 0]
is_ipv4(addr) == addr.fam = "V4"
is_ipv6(addr) == addr.fam = "V6"

\* Ipv4Addr::to_ipv6_mapped: a.b.c.d -> ::ffff:a.b.c.d, as eight 16-bit segments
to_ipv6_mapped(ip) == <<0, 0, 0, 0, 0, 65535, ip[1] * 256 + ip[2], ip[3] * 256 + ip[4]>>

UdpBindAddrs == {V4(<<0, 0, 0, 0>>, 33445), V6(<<0, 0, 0, 0, 0, 0, 0, 0>>, 33445)}
PeerA == V4(<<127, 0, 0, 1>>, 33445)
PeerB == V4(<<10, 0, 1, 2>>, 33446)
PeerC == V6(<<0, 0, 0, 0, 0, 0, 0, 1>>, 33447)

\* What the environment may deliver: packets queued for the socket, datagrams
\* read from it, and onion envelopes (payload, peer address) for the bridge.
QueuedPackets ==
    {[packet |-> "p1", addr |-> PeerA], [packet |-> "p2", addr |-> PeerB],
     [packet |-> "p3", addr |-> PeerC]}
DatagramEvents ==
    {[k |-> "packet", packet |-> "p1", addr |-> PeerA],
     [k |-> "packet", packet |-> "p2", addr |-> PeerC],
     [k |-> "DecodeError", packet |-> "", addr |-> NoAddr],
     [k |-> "IoError", packet |-> "", addr |-> NoAddr]}
OnionRequests ==
    {[kind |-> "OnionRequest", payload |-> "P1", addr |-> PeerA],
     [kind |-> "OnionRequest", payload |-> "P2", addr |-> PeerC]}
OnionResponses ==
    {[kind |-> "InnerOnionResponse", payload |-> "P1", addr |-> PeerA],
     [kind |-> "InnerOnionResponse", payload |-> "P2", addr |-> PeerC]}

\* ------------------------------------------------------------ identity
\* Key sizes of the crypto library, as load_keys and save_keys use them.
PUBLICKEYBYTES == 32
SECRETKEYBYTES == 32

Key(k) == [i \in 1..SECRETKEYBYTES |-> k]
SecretKeys == {Key(1), Key(2)}
NoKey == <<>>
\* SecretKey::public_key: the public key is a function of the secret key, and
\* distinct secret keys have distinct public keys.
public_key(sk) == [i \in 1..PUBLICKEYBYTES |-> ((3 * sk[i]) + i) % 256]
NoKeys == [pk |-> NoKey, sk |-> NoKey]

\* The file at the keys_file path: missing, unreadable, or its bytes.
AbsentFile == [st |-> "absent", bytes |-> <<>>]
DeniedFile == [st |-> "denied", bytes |-> <<>>]
File(bytes) == [st |-> "file", bytes |-> bytes]
ValidFile(sk) == File(public_key(sk) \o sk)

\* What getting the identity comes to: the key pair or the panic, the file it
\* leaves behind, and whether gen_keypair was called.
Loaded(pk, sk, file, gen) ==
    [res |-> "ok", why |-> "", pk |-> pk, sk |-> sk, file |-> file, generated |-> gen]
Panicked(why, file, gen) ==
    [res |-> "panic", why |-> why, pk |-> NoKey, sk |-> NoKey, file |-> file,
     generated |-> gen]

\* load_keys: read_exact fills the buffer from the start of the file and fails
\* when the file ends first; the halves must be a key pair.
load_keys_unchecked(file) ==
    IF Len(file.bytes) < PUBLICKEYBYTES + SECRETKEYBYTES
    THEN Panicked("Failed to read keys from the keys file", file, FALSE)
    ELSE Loaded(SubSeq(file.bytes, 1, PUBLICKEYBYTES),
                SubSeq(file.bytes, PUBLICKEYBYTES + 1, PUBLICKEYBYTES + SECRETKEYBYTES),
                file, FALSE)
load_keys(file) ==
    IF Len(file.bytes) < PUBLICKEYBYTES + SECRETKEYBYTES
    THEN Panicked("Failed to read keys from the keys file", file, FALSE)
    ELSE LET buf == SubSeq(file.bytes, 1, PUBLICKEYBYTES + SECRETKEYBYTES)
             pk == SubSeq(buf, 1, PUBLICKEYBYTES)
             sk == SubSeq(buf, PUBLICKEYBYTES + 1, PUBLICKEYBYTES + SECRETKEYBYTES)
         IN  IF pk = public_key(sk)
             THEN Loaded(pk, sk, file, FALSE)
             ELSE Panicked("The loaded public key does not correspond to the loaded secret key",
                           file, FALSE)

\* save_keys on a path where no file is: the file is created and the public
\* key, then the secret key, are written; each of the three can fail, leaving
\* what was written so far.
save_keys_sk_first(pk, sk) ==
    {Loaded(pk, sk, File(sk \o pk), TRUE),
     Panicked("Failed to create the keys file", AbsentFile, TRUE),
     Panicked("Failed to save public key to the keys file", File(<<>>), TRUE),
     Panicked("Failed to save secret key to the keys file", File(sk), TRUE)}
save_keys(pk, sk) ==
    {Loaded(pk, sk, File(pk \o SubSeq(sk, 1, SECRETKEYBYTES)), TRUE),
     Panicked("Failed to create the keys file", AbsentFile, TRUE),
     Panicked("Failed to save public key to the keys file", File(<<>>), TRUE),
     Panicked("Failed to save secret key to the keys file", File(pk), TRUE)}

\* gen_keypair: some secret key and its public key.
gen_keypair == {[pk |-> public_key(sk), sk |-> sk] : sk \in SecretKeys}

\* load_or_gen_keys: the outcomes of File::open and of what follows it.
load_or_gen_keys(file) ==
    IF file.st = "file" THEN {load_keys(file)}
    ELSE IF file.st = "absent"
    THEN UNION {save_keys(kp.pk, kp.sk) : kp \in gen_keypair}
    ELSE {Panicked("Failed to read the keys file", file, FALSE)}

\* The identity block of main: the secret key of the configuration, else the
\* keys file, else a panic.
main_keys_zero_pk(config, file) ==
    IF config.sk # NoKey THEN {Loaded(Key(0), config.sk, file, FALSE)}
    ELSE IF config.keys_file THEN load_or_gen_keys(file)
    ELSE {Panicked("Neither secret key nor keys file is specified", file, FALSE)}
main_keys(config, file) ==
    IF config.sk # NoKey THEN {Loaded(public_key(config.sk), config.sk, file, FALSE)}
    ELSE IF config.keys_file THEN load_or_gen_keys(file)
    ELSE {Panicked("Neither secret key nor keys file is specified", file, FALSE)}

\* ---------------------------------------------------------------- version
\* A u32 beyond 2^31 is held as two 16-bit limbs, hi * 2^16 + lo.
Limb == 65536
\* 3000000000 = 45776 * 2^16 + 24064
VersionBase == [hi |-> 45776, lo |-> 24064]
NoVersion == [res |-> "none", hi |-> 0, lo |-> 0, overflow |-> FALSE]

\* base + n in u32 arithmetic, for n < 2^31: the wrapped sum and whether it
\* overflowed.
U32Add(base, n) ==
    LET lo == base.lo + (n % Limb)
        hi == base.hi + (n \div Limb) + (lo \div Limb)
    IN  [res |-> "ok", hi |-> hi % Limb, lo |-> lo % Limb, overflow |-> hi >= Limb]

version_minor_100(major, minor, patch) ==
    IF major >= 1000 THEN [NoVersion EXCEPT !.res = "Invalid major version"]
    ELSE IF minor >= 1000 THEN [NoVersion EXCEPT !.res = "Invalid minor version"]
    ELSE IF patch >= 1000 THEN [NoVersion EXCEPT !.res = "Invalid patch version"]
    ELSE U32Add(VersionBase, major * 1000000 + minor * 100 + patch)
version(major, minor, patch) ==
    IF major >= 1000 THEN [NoVersion EXCEPT !.res = "Invalid major version"]
    ELSE IF minor >= 1000 THEN [NoVersion EXCEPT !.res = "Invalid minor version"]
    ELSE IF patch >= 1000 THEN [NoVersion EXCEPT !.res = "Invalid patch version"]
    ELSE U32Add(VersionBase, major * 1000000 + minor * 1000 + patch)

\* ---------------------------------------------------------------- state
VARIABLES
    cli_config,        \* [udp_addr, tcp_addrs (their number), lan_discovery_enabled]
    fut,               \* outcome of each named future built by run_udp / run_tcp
    tcp_server_futures,\* outcome of each listener task (tcp_server_c.run)
    udp_select,        \* latched outcome of the select chain of run_udp
    tcp_select,        \* latched outcome of select_all(tcp_server_futures)
    udp_server_future, \* outcome of the future run_udp returned
    tcp_server_future, \* outcome of the future run_tcp returned
    future,            \* outcome of the root select of main
    process,           \* what run() made of it
    chan,              \* the two bridge channels, by the name of their tx/rx pair
    net_rx,            \* rx of the (tx, rx) channel of run_udp: packets to write
    sink,              \* the send in flight on the UdpFramed sink: <<>> or <<item>>
    written,           \* what the socket has sent, in order
    net_queued,        \* history: packets queued on tx, in order
    datagrams,         \* history: events the UdpFramed stream yielded
    handled_packets,   \* history: calls of handle_packet, with their results
    tcp_sent,          \* history: envelopes the relay put on tcp_onion.tx
    udp_sent,          \* history: envelopes the DHT server put on udp_onion.tx
    udp_received,      \* history: what the future draining udp_onion.rx did per item
    tcp_received,      \* history: what the future draining tcp_onion.rx did per item
    inputs,            \* number of environment events so far
    input_limit,       \* most environment events of this run
    boot,              \* where main() is before run(), and what it has set up
    key_fs,            \* the file at the keys_file path
    key_log,           \* history: how each start of the process got its identity
    ver                \* the package version and the word version() made of it

vars == <<cli_config, fut, tcp_server_futures, udp_select, tcp_select,
          udp_server_future, tcp_server_future, future, process, chan, net_rx,
          sink, written, net_queued, datagrams, handled_packets, tcp_sent,
          udp_sent, udp_received, tcp_received, inputs, input_limit, boot, key_fs,
          key_log, ver>>

\* What only the start-up of main() and version() touch.
startup == <<input_limit, boot, key_fs, key_log, ver>>

hist == <<written, net_queued, datagrams, handled_packets, tcp_sent, udp_sent,
          udp_received, tcp_received>>

\* ------------------------------------------------------------ combinators
\* future::select_ok, which select_all is not: failures are skipped while another
\* future may still succeed.
SelectOk(fs) ==
    IF \E i \in DOMAIN fs : fs[i] = Ok THEN Ok
    ELSE IF fs # <<>> /\ \A i \in DOMAIN fs : IsErr(fs[i]) THEN fs[Len(fs)]
    ELSE Pending

\* Future::select: the first of the two to complete, success or failure, is the
\* outcome; a is polled before b.
Select(a, b) == IF IsDone(a) THEN a ELSE IF IsDone(b) THEN b ELSE Pending

\* Future::join: the first failure, else success once both have succeeded.
\* (A join that waited for both before reporting a failure would be another.)
JoinWaitsForBoth(a, b) ==
    IF ~(IsDone(a) /\ IsDone(b)) THEN Pending
    ELSE IF IsErr(a) THEN a
    ELSE IF IsErr(b) THEN b
    ELSE Ok
Join(a, b) ==
    IF IsErr(a) THEN a
    ELSE IF IsErr(b) THEN b
    ELSE IF a = Ok /\ b = Ok THEN Ok
    ELSE Pending

\* future::select_all: the first listed future that completed.
SelectAll(fs) ==
    IF \E i \in DOMAIN fs : IsDone(fs[i])
    THEN fs[CHOOSE i \in DOMAIN fs : IsDone(fs[i]) /\ \A j \in DOMAIN fs : IsDone(fs[j]) => i <= j]
    ELSE Pending

\* ----------------------------------------------------------- the bridge
\* create_onion_streams: which channel each endpoint's tx and rx belong to.
\* "udp_onion" is (udp_onion_tx, udp_onion_rx), "tcp_onion" is (tcp_onion_tx, tcp_onion_rx).
create_onion_streams_looped ==
    [tcp_onion |-> [tx |-> "tcp_onion", rx |-> "tcp_onion"],
     udp_onion |-> [tx |-> "udp_onion", rx |-> "udp_onion"]]
create_onion_streams ==
    [tcp_onion |-> [tx |-> "tcp_onion", rx |-> "udp_onion"],
     udp_onion |-> [tx |-> "udp_onion", rx |-> "tcp_onion"]]

\* mpsc::unbounded: a send never waits for room, and the queue is first in,
\* first out.
bounded_1(q) == Len(q) < 1
unbounded(q) == TRUE
unbounded_send_lifo(q, item) == <<item>> \o q
unbounded_send(q, item) == Append(q, item)

UdpActive == cli_config.udp_addr # NoAddr
TcpActive == cli_config.tcp_addrs > 0

\* The TcpServer (and with it tcp_onion.tx, set_udp_onion_sink) lives in the
\* listener futures and in the closure of tcp_onion_future.
TcpServerAlive_drain_only(f, l) == TcpActive /\ f.tcp_onion_future = Pending
TcpServerAlive(f, l) ==
    /\ TcpActive
    /\ \/ f.tcp_onion_future = Pending
       \/ \E i \in DOMAIN l : l[i] = Pending

\* The UdpServer (and with it udp_onion.tx and tx) lives in server.run() and in
\* the closures of network_reader and udp_onion_future.
UdpServerAlive(f) ==
    /\ UdpActive
    /\ \/ f.network_reader = Pending
       \/ f.udp_onion_future = Pending
       \/ f.server_run = Pending

\* Some clone of channel ch's sender still exists.  A stub transport drops its
\* tx when run_udp / run_tcp returns.
SendersAlive_stub_keeps_tx(ch, f, l) ==
    \/ create_onion_streams.tcp_onion.tx = ch
          /\ (TcpServerAlive(f, l) \/ (~TcpActive /\ f.tcp_onion_future = Pending))
    \/ create_onion_streams.udp_onion.tx = ch
          /\ (UdpServerAlive(f) \/ (~UdpActive /\ f.udp_onion_future = Pending))
SendersAlive(ch, f, l) ==
    \/ create_onion_streams.tcp_onion.tx = ch /\ TcpServerAlive(f, l)
    \/ create_onion_streams.udp_onion.tx = ch /\ UdpServerAlive(f)

ReceiverAlive(ch, f) ==
    \/ create_onion_streams.udp_onion.rx = ch /\ f.udp_onion_future = Pending
    \/ create_onion_streams.tcp_onion.rx = ch /\ f.tcp_onion_future = Pending

NetSendersAlive(f) ==
    \/ UdpServerAlive(f)
    \/ cli_config.lan_discovery_enabled /\ f.lan_discovery_future = Pending

\* ------------------------------------------------------------- run_udp
\* The placeholder taking the discovery broadcaster's place when it is disabled.
lan_discovery_placeholder == Pending          \* future::empty()

\* network_reader.select(network_writer).select(server.run()).select(lan_discovery_future)
udp_select_chain(f) ==
    Select(Select(Select(f.network_reader, f.network_writer), f.server_run),
           f.lan_discovery_future)

\* udp_onion_future.and_then(|_| ...), which the join is not.
run_udp_and_then(sel, f) ==
    IF UdpActive /\ f.udp_onion_future = Ok THEN sel ELSE f.udp_onion_future
\* The future run_udp returns, from the (latched) select chain and the drain.
run_udp(sel, f) ==
    IF UdpActive THEN Join(sel, f.udp_onion_future) ELSE f.udp_onion_future

\* The filter of network_reader: TRUE keeps the event in the stream.
reader_filter_keeps_all(event) == TRUE
reader_filter(event) == event.k = "packet" \/ event.k # "DecodeError"

\* What a for_each body yields for a handler result: or_else turns Err into Ok.
or_else_propagates(res) == res
or_else(res) == "ok"

\* The filter of network_writer.
writer_filter_keeps_all(udp_addr, addr) == TRUE
writer_filter_v6_drops_v4(udp_addr, addr) == ~(is_ipv6(udp_addr) /\ is_ipv4(addr))
writer_filter(udp_addr, addr) == ~(is_ipv4(udp_addr) /\ is_ipv6(addr))

\* The address the fold of network_writer sends to.
\* (With Ipv4Addr::to_ipv6_compatible, a.b.c.d -> ::a.b.c.d, it would be another.)
writer_addr_compatible(udp_addr, addr) ==
    IF is_ipv6(udp_addr) /\ addr.fam = "V4"
    THEN V6(<<0, 0, 0, 0, 0, 0, addr.ip[1] * 256 + addr.ip[2],
              addr.ip[3] * 256 + addr.ip[4]>>, addr.port)
    ELSE addr
writer_addr(udp_addr, addr) ==
    IF is_ipv6(udp_addr) /\ addr.fam = "V4"
    THEN V6(to_ipv6_mapped(addr.ip), addr.port)
    ELSE addr

\* ------------------------------------------------------------- run_tcp
\* The future run_tcp returns.
run_tcp(sel, f) ==
    IF TcpActive THEN Join(sel, f.tcp_onion_future) ELSE f.tcp_onion_future

\* ---------------------------------------------------------------- main
\* udp_server_future.select(tcp_server_future)
root_select_udp_only(u, t) == u
root_select(u, t) == Select(u, t)

\* run(): block_on(future).expect(..), then main returns.
run(o) ==
    IF o = Pending THEN <<"running", "", 0>>
    ELSE IF IsErr(o) THEN <<"panic", o[2], o[3]>>
    ELSE <<"exit", "", 0>>

Running == process = <<"running", "", 0>>

\* main() before it calls run(): boot.pc is the call it is about to make.
Boot0 == [pc |-> "keys", dht |-> NoKeys, udp_bound |-> FALSE, tcp_bound |-> 0]

\* The root task is polled once run() has handed it to the runtime, which is
\* after everything run_udp and run_tcp set up.
ServingBeforeTcp == Running /\ boot.pc \in {"run_tcp", "run", "serving"}
Serving == Running /\ boot.pc = "serving"

\* One poll of the task tree after the leaves moved to f and l: every combinator
\* whose child completed resolves in the same poll, and what it owned is dropped.
Resolve(f, l) ==
    LET ts == IF tcp_select # Pending THEN tcp_select
              ELSE IF TcpActive THEN SelectAll(l) ELSE Pending
        us == IF udp_select # Pending THEN udp_select
              ELSE IF UdpActive THEN udp_select_chain(f) ELSE Pending
        uu == run_udp(us, f)
        tu == run_tcp(ts, f)
        nd == root_select(uu, tu)
        udpGone == IsDone(uu) \/ IsDone(nd)
        tcpGone == IsDone(tu) \/ IsDone(nd)
        drop(o, gone) == IF gone /\ o = Pending THEN Dropped ELSE o
    IN  /\ fut' = [n \in DOMAIN f |->
                     IF n \in {"network_reader", "network_writer", "server_run",
                               "lan_discovery_future"}
                     THEN drop(f[n], IsDone(us) \/ udpGone)
                     ELSE IF n = "udp_onion_future" THEN drop(f[n], udpGone)
                     ELSE drop(f[n], tcpGone)]
        /\ tcp_server_futures' = [i \in DOMAIN l |-> drop(l[i], IsDone(ts) \/ tcpGone)]
        /\ udp_select' = us
        /\ tcp_select' = ts
        /\ udp_server_future' = drop(uu, IsDone(nd))
        /\ tcp_server_future' = drop(tu, IsDone(nd))
        /\ future' = nd
        /\ process' = run(nd)

Unresolved ==
    UNCHANGED <<fut, tcp_server_futures, udp_select, tcp_select, udp_server_future,
                tcp_server_future, future, process>>

\* ----------------------------------------------------------------- Init
\* The transports of a configuration; its identity comes from the keys file.
Configs ==
    {[udp_addr |-> u, tcp_addrs |-> n, lan_discovery_enabled |-> d,
      sk |-> NoKey, keys_file |-> TRUE] :
        u \in UdpBindAddrs \cup {NoAddr}, n \in 0..MaxListeners, d \in BOOLEAN}

\* A keys file whose public half belongs to another secret key.
MismatchedFile == File(public_key(Key(2)) \o Key(1))
\* The version of the package (CARGO_PKG_VERSION_*).
PkgVersion == [major |-> 0, minor |-> 2, patch |-> 1, out |-> NoVersion]

\* The process has just entered main() with configuration cli_config.
Entered ==
    /\ fut = [network_reader |-> IF UdpActive THEN Pending ELSE Absent,
              network_writer |-> IF UdpActive THEN Pending ELSE Absent,
              server_run |-> IF UdpActive THEN Pending ELSE Absent,
              lan_discovery_future |->
                  IF ~UdpActive THEN Absent
                  ELSE IF cli_config.lan_discovery_enabled THEN Pending
                  ELSE lan_discovery_placeholder,
              udp_onion_future |-> Pending,
              tcp_onion_future |-> Pending]
    /\ tcp_server_futures = [i \in 1..cli_config.tcp_addrs |-> Pending]
    /\ udp_select = Pending
    /\ tcp_select = Pending
    /\ udp_server_future = Pending
    /\ tcp_server_future = Pending
    /\ future = Pending
    /\ process = run(Pending)
    /\ chan = [udp_onion |-> <<>>, tcp_onion |-> <<>>]
    /\ net_rx = <<>>
    /\ sink = <<>>
    /\ written = <<>>
    /\ net_queued = <<>>
    /\ datagrams = <<>>
    /\ handled_packets = <<>>
    /\ tcp_sent = <<>>
    /\ udp_sent = <<>>
    /\ udp_received = <<>>
    /\ tcp_received = <<>>
    /\ inputs = 0
    /\ boot = Boot0
    /\ key_log = <<>>

Init ==
    /\ cli_config \in Configs
    /\ Entered
    /\ input_limit = MaxInputs
    /\ key_fs \in {ValidFile(Key(1)), MismatchedFile}
    /\ ver = PkgVersion

\* -------------------------------------------------------------- actions
\* main gets the identity of the node (main.rs:331-337).
MainKeys ==
    /\ Running /\ boot.pc = "keys"
    /\ \E o \in main_keys(cli_config, key_fs) :
         /\ key_fs' = o.file
         /\ key_log' = Append(key_log,
                [res |-> o.res, why |-> o.why, pk |-> o.pk, sk |-> o.sk,
                 generated |-> o.generated, before |-> key_fs, after |-> o.file])
         /\ IF o.res = "ok"
            THEN /\ boot' = [boot EXCEPT !.pc = "run_udp",
                                         !.dht = [pk |-> o.pk, sk |-> o.sk]]
                 /\ UNCHANGED process
            ELSE /\ process' = <<"panic", o.why, 0>>
                 /\ UNCHANGED boot
    /\ UNCHANGED <<cli_config, fut, tcp_server_futures, udp_select, tcp_select,
                   udp_server_future, tcp_server_future, future, chan, net_rx, sink,
                   hist, inputs, input_limit, ver>>

\* run_udp builds the UDP unit: bind_socket binds the address and sets the
\* socket options, each of which can panic (main.rs:63-70, 220).  Without a UDP
\* address there is nothing to bind.
RunUdp ==
    /\ Running /\ boot.pc = "run_udp"
    /\ \E o \in IF ~UdpActive THEN {"stub"}
               ELSE {"ok", "Failed to bind UDP socket", "set_broadcast call failed"}
                    \cup IF is_ipv6(cli_config.udp_addr)
                         THEN {"set_multicast_loop_v6 call failed"} ELSE {} :
         IF o \in {"stub", "ok"}
         THEN /\ boot' = [boot EXCEPT !.pc = "run_tcp", !.udp_bound = (o = "ok")]
              /\ UNCHANGED process
         ELSE /\ process' = <<"panic", o, 0>>
              /\ UNCHANGED boot
    /\ UNCHANGED <<cli_config, fut, tcp_server_futures, udp_select, tcp_select,
                   udp_server_future, tcp_server_future, future, chan, net_rx, sink,
                   hist, inputs, input_limit, key_fs, key_log, ver>>

\* run_tcp builds the TCP unit: select_all collects its futures at once, so
\* every address is bound, in order, before run_tcp returns; the first bind
\* that fails panics (main.rs:180-188).
RunTcp ==
    /\ Running /\ boot.pc = "run_tcp"
    /\ \E n \in 0..cli_config.tcp_addrs :
         IF n = cli_config.tcp_addrs
         THEN /\ boot' = [boot EXCEPT !.pc = "run", !.tcp_bound = n]
              /\ UNCHANGED process
         ELSE /\ boot' = [boot EXCEPT !.tcp_bound = n]
              /\ process' = <<"panic", "Failed to bind TCP listener", n + 1>>
    /\ UNCHANGED <<cli_config, fut, tcp_server_futures, udp_select, tcp_select,
                   udp_server_future, tcp_server_future, future, chan, net_rx, sink,
                   hist, inputs, input_limit, key_fs, key_log, ver>>

\* run() builds the runtime and blocks on the root future (main.rs:115-133, 352).
RunRuntime ==
    /\ Running /\ boot.pc = "run"
    /\ \/ boot' = [boot EXCEPT !.pc = "serving"] /\ UNCHANGED process
       \/ process' = <<"panic", "Failed to create runtime", 0>> /\ UNCHANGED boot
    /\ UNCHANGED <<cli_config, fut, tcp_server_futures, udp_select, tcp_select,
                   udp_server_future, tcp_server_future, future, chan, net_rx, sink,
                   hist, inputs, input_limit, key_fs, key_log, ver>>

\* The process is started again with the same configuration, on the keys file
\* the earlier start left.
Restart ==
    /\ boot.pc # "keys" \/ ~Running
    /\ Len(key_log) < MaxStarts
    /\ boot' = Boot0
    /\ process' = run(Pending)
    /\ UNCHANGED <<cli_config, fut, tcp_server_futures, udp_select, tcp_select,
                   udp_server_future, tcp_server_future, future, chan, net_rx, sink,
                   hist, inputs, input_limit, key_fs, key_log, ver>>

\* version() makes the version word of the package version (main.rs:52-60).
Version ==
    /\ ver.out = NoVersion
    /\ ver' = [ver EXCEPT !.out = version(ver.major, ver.minor, ver.patch)]
    /\ UNCHANGED <<cli_config, fut, tcp_server_futures, udp_select, tcp_select,
                   udp_server_future, tcp_server_future, future, process, chan, net_rx,
                   sink, hist, inputs, input_limit, boot, key_fs, key_log>>

\* A relay connection hands an onion request to the TcpServer, which sends it on
\* its udp_onion_sink (tcp_onion.tx, set at main.rs:177).
TcpSendOnionRequest(env) ==
    /\ Serving /\ TcpActive /\ inputs < input_limit
    /\ LET ch == create_onion_streams.tcp_onion.tx
       IN  /\ unbounded(chan[ch])
           /\ chan' = IF ReceiverAlive(ch, fut)
                      THEN [chan EXCEPT ![ch] = unbounded_send(@, env)]
                      ELSE chan
    /\ tcp_sent' = Append(tcp_sent, env)
    /\ inputs' = inputs + 1
    /\ Unresolved
    /\ UNCHANGED <<cli_config, startup, net_rx, sink, written, net_queued, datagrams,
                   handled_packets, udp_sent, udp_received, tcp_received>>

\* The UdpServer sends an onion response on its tcp_onion_sink (udp_onion.tx,
\* set at main.rs:238).
UdpSendOnionResponse(env) ==
    /\ Serving /\ UdpActive /\ inputs < input_limit
    /\ LET ch == create_onion_streams.udp_onion.tx
       IN  /\ unbounded(chan[ch])
           /\ chan' = IF ReceiverAlive(ch, fut)
                      THEN [chan EXCEPT ![ch] = unbounded_send(@, env)]
                      ELSE chan
    /\ udp_sent' = Append(udp_sent, env)
    /\ inputs' = inputs + 1
    /\ Unresolved
    /\ UNCHANGED <<cli_config, startup, net_rx, sink, written, net_queued, datagrams,
                   handled_packets, tcp_sent, udp_received, tcp_received>>

\* One step of the for_each over udp_onion.rx: the stub (main.rs:214-216) discards
\* the item, the active unit (main.rs:242-249) hands it to handle_tcp_onion_request;
\* the stream ends once it is empty and every sender is gone.
UdpOnionFuture ==
    /\ Serving /\ fut.udp_onion_future = Pending
    /\ LET ch == create_onion_streams.udp_onion.rx
       IN  IF chan[ch] # <<>>
           THEN /\ chan' = [chan EXCEPT ![ch] = Tail(@)]
                /\ \E res \in IF UdpActive THEN {"ok", "err"} ELSE {"ok"} :
                     /\ udp_received' = Append(udp_received,
                            [by |-> IF UdpActive THEN "handle_tcp_onion_request" ELSE "discard",
                             item |-> Head(chan[ch]), res |-> res])
                     /\ IF UdpActive /\ or_else(res) # "ok"
                        THEN Resolve([fut EXCEPT !.udp_onion_future =
                                          Err("handle_tcp_onion_request", 0)],
                                     tcp_server_futures)
                        ELSE Unresolved
           ELSE /\ ~SendersAlive(ch, fut, tcp_server_futures)
                /\ Resolve([fut EXCEPT !.udp_onion_future = Ok], tcp_server_futures)
                /\ UNCHANGED <<chan, udp_received>>
    /\ UNCHANGED <<cli_config, startup, net_rx, sink, written, net_queued, datagrams,
                   handled_packets, tcp_sent, udp_sent, tcp_received, inputs>>

\* One step of the for_each over tcp_onion.rx: the stub (main.rs:170-172) discards
\* the item, the active unit (main.rs:192-199) hands it to handle_udp_onion_response.
TcpOnionFuture ==
    /\ Serving /\ fut.tcp_onion_future = Pending
    /\ LET ch == create_onion_streams.tcp_onion.rx
       IN  IF chan[ch] # <<>>
           THEN /\ chan' = [chan EXCEPT ![ch] = Tail(@)]
                /\ \E res \in IF TcpActive THEN {"ok", "err"} ELSE {"ok"} :
                     /\ tcp_received' = Append(tcp_received,
                            [by |-> IF TcpActive THEN "handle_udp_onion_response" ELSE "discard",
                             item |-> Head(chan[ch]), res |-> res])
                     /\ IF TcpActive /\ or_else(res) # "ok"
                        THEN Resolve([fut EXCEPT !.tcp_onion_future =
                                          Err("handle_udp_onion_response", 0)],
                                     tcp_server_futures)
                        ELSE Unresolved
           ELSE /\ ~SendersAlive(ch, fut, tcp_server_futures)
                /\ Resolve([fut EXCEPT !.tcp_onion_future = Ok], tcp_server_futures)
                /\ UNCHANGED <<chan, tcp_received>>
    /\ UNCHANGED <<cli_config, startup, net_rx, sink, written, net_queued, datagrams,
                   handled_packets, tcp_sent, udp_sent, udp_received, inputs>>

\* One event of the UdpFramed stream through network_reader (main.rs:262-277):
\* filtered out, or an Err that ends the stream, or a packet for handle_packet.
NetworkReader(event) ==
    /\ Serving /\ fut.network_reader = Pending /\ inputs < input_limit
    /\ datagrams' = Append(datagrams, event)
    /\ inputs' = inputs + 1
    /\ \E res \in IF event.k = "packet" THEN {"ok", "err"} ELSE {"ok"} :
         IF ~reader_filter(event)
         THEN Unresolved /\ UNCHANGED handled_packets
         ELSE IF event.k # "packet"
         THEN /\ Resolve([fut EXCEPT !.network_reader = Err(event.k, 0)],
                         tcp_server_futures)
              /\ UNCHANGED handled_packets
         ELSE /\ handled_packets' = Append(handled_packets,
                      [packet |-> event.packet, addr |-> event.addr, res |-> res])
              /\ IF or_else(res) # "ok"
                 THEN Resolve([fut EXCEPT !.network_reader = Err("handle_packet", 0)],
                              tcp_server_futures)
                 ELSE Unresolved
    /\ UNCHANGED <<cli_config, startup, chan, net_rx, sink, written, net_queued, tcp_sent,
                   udp_sent, udp_received, tcp_received>>

\* The UdpServer (or the discovery sender) queues a packet on tx (main.rs:224).
ServerQueuePacket(item) ==
    /\ Serving /\ UdpActive /\ inputs < input_limit
    /\ unbounded(net_rx)
    /\ net_rx' = IF fut.network_writer = Pending THEN unbounded_send(net_rx, item) ELSE net_rx
    /\ net_queued' = Append(net_queued, item)
    /\ inputs' = inputs + 1
    /\ Unresolved
    /\ UNCHANGED <<cli_config, startup, chan, sink, written, datagrams, handled_packets,
                   tcp_sent, udp_sent, udp_received, tcp_received>>

\* Stream::fold polls the future its closure returned (sink.send, which gives
\* the sink back) to completion before it takes the next item of the stream.
fold_eager(s) == TRUE
fold_ready(s) == s = <<>>

\* network_writer takes the next packet of rx (main.rs:279-291): the filter drops
\* it, or the fold starts sink.send with the address rewritten; the stream ends
\* once it is empty and every sender is gone.
NetworkWriterNext ==
    /\ Serving /\ fut.network_writer = Pending /\ fold_ready(sink)
    /\ IF net_rx # <<>>
       THEN /\ net_rx' = Tail(net_rx)
            /\ sink' = IF writer_filter(cli_config.udp_addr, Head(net_rx).addr)
                       THEN Append(sink,
                              [packet |-> Head(net_rx).packet,
                               addr |-> writer_addr(cli_config.udp_addr, Head(net_rx).addr)])
                       ELSE sink
            /\ Unresolved
       ELSE /\ ~NetSendersAlive(fut)
            /\ Resolve([fut EXCEPT !.network_writer = Ok], tcp_server_futures)
            /\ UNCHANGED <<net_rx, sink>>
    /\ UNCHANGED <<cli_config, startup, chan, written, net_queued, datagrams, handled_packets,
                   tcp_sent, udp_sent, udp_received, tcp_received, inputs>>

\* sink.send completes (main.rs:290): the packet is on the wire, or the socket
\* failed and the fold ends with that error.
NetworkWriterSent ==
    /\ Serving /\ fut.network_writer = Pending /\ sink # <<>>
    /\ written' = Append(written, Head(sink))
    /\ sink' = Tail(sink)
    /\ Unresolved
    /\ UNCHANGED <<cli_config, startup, chan, net_rx, net_queued, datagrams, handled_packets,
                   tcp_sent, udp_sent, udp_received, tcp_received, inputs>>

NetworkWriterFails ==
    /\ Serving /\ fut.network_writer = Pending /\ sink # <<>>
    /\ Resolve([fut EXCEPT !.network_writer = Err("send", 0)], tcp_server_futures)
    /\ UNCHANGED <<cli_config, startup, chan, net_rx, sink, hist, inputs>>

\* The tasks of the external servers (server.run(), the discovery sender, the
\* listener tasks) and the socket stream are loops over streams that do not end:
\* each is running or has failed.  The futures whose completion main.rs decides
\* (the drains and the writer, which end when their channel closes) can also
\* succeed.

\* server.run() fails (main.rs:299).
ServerRunFails ==
    /\ Serving /\ fut.server_run = Pending
    /\ Resolve([fut EXCEPT !.server_run = Err("server_run", 0)], tcp_server_futures)
    /\ UNCHANGED <<cli_config, startup, chan, net_rx, sink, hist, inputs>>

\* LanDiscoverySender::run fails (main.rs:227-229); the placeholder never does.
LanDiscoveryFails ==
    /\ Serving /\ cli_config.lan_discovery_enabled
    /\ fut.lan_discovery_future = Pending
    /\ Resolve([fut EXCEPT !.lan_discovery_future = Err("lan_discovery", 0)],
               tcp_server_futures)
    /\ UNCHANGED <<cli_config, startup, chan, net_rx, sink, hist, inputs>>

\* The listener task of the i-th TCP address fails (main.rs:184-185).
ListenerFails(i) ==
    /\ Serving /\ i \in DOMAIN tcp_server_futures
    /\ tcp_server_futures[i] = Pending
    /\ Resolve(fut, [tcp_server_futures EXCEPT ![i] = Err("listener", i)])
    /\ UNCHANGED <<cli_config, startup, chan, net_rx, sink, hist, inputs>>

Next ==
    \/ MainKeys
    \/ RunUdp
    \/ RunTcp
    \/ RunRuntime
    \/ \E env \in OnionRequests : TcpSendOnionRequest(env)
    \/ \E env \in OnionResponses : UdpSendOnionResponse(env)
    \/ UdpOnionFuture
    \/ TcpOnionFuture
    \/ \E event \in DatagramEvents : NetworkReader(event)
    \/ \E item \in QueuedPackets : ServerQueuePacket(item)
    \/ NetworkWriterNext
    \/ NetworkWriterSent
    \/ NetworkWriterFails
    \/ ServerRunFails
    \/ LanDiscoveryFails
    \/ \E i \in ListenerIds : ListenerFails(i)

Spec == Init /\ [][Next]_vars

\* The executor polls the root task whenever one of its streams has an item or
\* has ended: a drain or the writer that can take a step does take it.
FairSpec ==
    /\ Spec
    /\ WF_vars(UdpOnionFuture)
    /\ WF_vars(TcpOnionFuture)
    /\ WF_vars(NetworkWriterNext)

\* The configurations with exactly one transport configured: the other is a stub.
TcpStub == UdpActive /\ ~TcpActive
UdpStub == TcpActive /\ ~UdpActive
StubInit == Init /\ (TcpStub \/ UdpStub)
StubFairSpec ==
    /\ StubInit /\ [][Next]_vars
    /\ WF_vars(UdpOnionFuture)
    /\ WF_vars(TcpOnionFuture)
    /\ WF_vars(NetworkWriterNext)

\* The configurations in which a bridge direction is closed from the start: a
\* transport that is not configured drops its tx when run_udp / run_tcp returns.
CloseInit == Init /\ (~UdpActive \/ ~TcpActive)
CloseFairSpec ==
    /\ CloseInit /\ [][Next]_vars
    /\ WF_vars(UdpOnionFuture)
    /\ WF_vars(TcpOnionFuture)
    /\ WF_vars(NetworkWriterNext)

\* ------------------------------------------------------------ properties
Items(log) == [i \in DOMAIN log |-> log[i].item]
Last(q) == q[Len(q)]
Leaves == {"network_reader", "network_writer", "server_run", "lan_discovery_future",
           "udp_onion_future", "tcp_onion_future"}
UdpSelected == {"network_reader", "network_writer", "server_run", "lan_discovery_future"}

\* C1: bridge FIFO.  For either direction, what the consumer of the channel has
\* been yielded, followed by what is still queued, is exactly what the producer
\* sent, in the order sent: nothing lost, duplicated, altered or reordered.
C1_BridgeFifo ==
    /\ Items(udp_received) \o chan["tcp_onion"] = tcp_sent
    /\ Items(tcp_received) \o chan["udp_onion"] = udp_sent

\* C1 witness: two different envelopes sent by the relay, both yielded.
C1_Witness ==
    /\ Len(tcp_sent) = 2
    /\ tcp_sent[1] # tcp_sent[2]
    /\ Items(udp_received) = tcp_sent

C3_AllConsumedAtExit ==
    ~Running =>
        /\ TcpStub => Len(tcp_received) = Len(udp_sent)
        /\ UdpStub => Len(udp_received) = Len(tcp_sent)

\* C3 (amended): with one transport a stub and the other active, a push toward
\* the stub is always possible at once; what was pushed is queued or was
\* discarded by the stub, never handed to a handler; and under fair scheduling
\* every pushed envelope is consumed by the stub unless the process ends first.
C3_Safety ==
    /\ TcpStub =>
        /\ \A i \in DOMAIN tcp_received : tcp_received[i].by = "discard"
        /\ Items(tcp_received) \o chan[create_onion_streams.tcp_onion.rx] = udp_sent
        /\ udp_received = <<>>
        /\ Serving /\ inputs < input_limit =>
               \A env \in OnionResponses : ENABLED UdpSendOnionResponse(env)
    /\ UdpStub =>
        /\ \A i \in DOMAIN udp_received : udp_received[i].by = "discard"
        /\ Items(udp_received) \o chan[create_onion_streams.udp_onion.rx] = tcp_sent
        /\ tcp_received = <<>>
        /\ Serving /\ inputs < input_limit =>
               \A env \in OnionRequests : ENABLED TcpSendOnionRequest(env)
C3_StubDrain ==
    /\ []C3_Safety
    /\ \A k \in 1..MaxInputs :
         /\ (TcpStub /\ Len(udp_sent) >= k) ~> (Len(tcp_received) >= k \/ ~Running)
         /\ (UdpStub /\ Len(tcp_sent) >= k) ~> (Len(udp_received) >= k \/ ~Running)

\* C3 witness: the UDP server pushed two responses while the TCP stub had
\* drained none, and the stub then discarded both.
C3_Witness ==
    /\ TcpStub /\ Running
    /\ Len(udp_sent) = 2
    /\ Len(tcp_received) = 2
    /\ tcp_received[2].by = "discard"

\* C4: once either unit has failed, the root future has failed with that same
\* error, the process has panicked reporting it, no future of either unit is
\* still running, and nothing runs or restarts afterwards.
C4_Failed(u, other) ==
    IsErr(u) =>
        /\ future = u
        /\ process = <<"panic", u[2], u[3]>>
        /\ other # Pending
        /\ \A n \in Leaves : fut[n] # Pending
        /\ \A i \in DOMAIN tcp_server_futures : tcp_server_futures[i] # Pending
C4_FirstFailureWins ==
    /\ [](C4_Failed(udp_server_future, tcp_server_future)
          /\ C4_Failed(tcp_server_future, udp_server_future))
    /\ [][~Running => UNCHANGED vars]_vars

\* C4 witness: the TCP unit failed while the UDP unit was running.
C4_Witness ==
    /\ UdpActive
    /\ tcp_server_future = Err("listener", 2)
    /\ udp_server_future = Dropped
    /\ fut.network_reader = Dropped

\* C5 (as claimed): the process never ends with a success outcome.
C5_NeverSucceeds == process[1] # "exit"

\* With at least one transport configured the process never ends in success
\* (the case C5 fails on is the configuration with none).
C5_ExitOnlyWithoutTransports == process[1] = "exit" => (~UdpActive /\ ~TcpActive)

\* C6: while the active TCP unit has not terminated every listener task is
\* running, and a failed listener's error is the TCP unit's error.
C6_Listeners ==
    TcpActive =>
        /\ tcp_server_future = Pending =>
               \A i \in DOMAIN tcp_server_futures : tcp_server_futures[i] = Pending
        /\ \A i \in DOMAIN tcp_server_futures :
               IsErr(tcp_server_futures[i]) => tcp_server_future = tcp_server_futures[i]

\* C6 witness: of two listeners the second failed; the first was cancelled.
C6_Witness ==
    /\ cli_config.tcp_addrs = 2
    /\ tcp_server_futures[2] = Err("listener", 2)
    /\ tcp_server_futures[1] = Dropped
    /\ tcp_server_future = Err("listener", 2)

\* C7: a failure of the reader, the writer, server.run or the enabled discovery
\* sender is at once the failure of the UDP unit, with the same error, whether
\* or not the bridge drain joined with them has completed.
C7_UdpFailsAsOne ==
    UdpActive =>
        \A n \in UdpSelected : IsErr(fut[n]) => udp_server_future = fut[n]

\* C7 witness: the writer failed while the bridge drain was still pending.
C7_Witness ==
    /\ fut.network_writer = Err("send", 0)
    /\ fut.udp_onion_future = Dropped
    /\ udp_server_future = Err("send", 0)

\* C8: every decoded packet the stream yielded was handed to handle_packet, in
\* order, also after decode errors; no decode error ends the reader; any other
\* stream error is the last event, ends the reader with that error and fails
\* the UDP unit (and the process) with it.
PacketsOf(events) ==
    LET ps == SelectSeq(events, LAMBDA e : e.k = "packet")
    IN  [i \in DOMAIN ps |-> [packet |-> ps[i].packet, addr |-> ps[i].addr]]
C8_ReaderErrors ==
    /\ [i \in DOMAIN handled_packets |->
           [packet |-> handled_packets[i].packet, addr |-> handled_packets[i].addr]]
       = PacketsOf(datagrams)
    /\ \A i \in DOMAIN datagrams :
           datagrams[i].k \notin {"packet", "DecodeError"} =>
               /\ i = Len(datagrams)
               /\ fut.network_reader = Err(datagrams[i].k, 0)
               /\ udp_server_future = Err(datagrams[i].k, 0)
               /\ process = <<"panic", datagrams[i].k, 0>>
    /\ IsErr(fut.network_reader) =>
           /\ datagrams # <<>>
           /\ Last(datagrams).k \notin {"packet", "DecodeError"}

\* C8 witness: a decode error, then a packet that was handled.
C8_Witness ==
    /\ Len(datagrams) = 2
    /\ datagrams[1].k = "DecodeError"
    /\ datagrams[2].k = "packet"
    /\ Len(handled_packets) = 1
    /\ fut.network_reader = Pending

\* C9: no future ever fails with a handler's error; a loop whose handler
\* returned an error goes on, and every item of its stream is still handed
\* over in order.
HandlerErrors ==
    {Err("handle_packet", 0), Err("handle_tcp_onion_request", 0),
     Err("handle_udp_onion_response", 0)}
C9_HandlerErrorsAbsorbed ==
    /\ \A n \in Leaves : fut[n] \notin HandlerErrors
    /\ udp_server_future \notin HandlerErrors
    /\ tcp_server_future \notin HandlerErrors
    /\ future \notin HandlerErrors
    /\ Running /\ UdpActive => fut.network_reader = Pending
    /\ Running /\ UdpActive /\ TcpActive =>
           fut.udp_onion_future = Pending /\ fut.tcp_onion_future = Pending
    /\ [i \in DOMAIN handled_packets |->
           [packet |-> handled_packets[i].packet, addr |-> handled_packets[i].addr]]
       = PacketsOf(datagrams)
    /\ Items(udp_received) \o chan[create_onion_streams.udp_onion.rx] = tcp_sent
    /\ Items(tcp_received) \o chan[create_onion_streams.tcp_onion.rx] = udp_sent

\* C9 witness: handle_tcp_onion_request failed on the first request and was
\* handed the second.
C9_Witness ==
    /\ Len(udp_received) = 2
    /\ udp_received[1].res = "err"
    /\ udp_received[1].by = "handle_tcp_onion_request"
    /\ udp_received[2].item = tcp_sent[2]
    /\ fut.udp_onion_future = Pending

\* C10: every packet written to the socket, or being written, is addressed to
\* the family the socket is bound to.
C10_AddressFamily ==
    /\ \A i \in DOMAIN written : written[i].addr.fam = cli_config.udp_addr.fam
    /\ \A i \in DOMAIN sink : sink[i].addr.fam = cli_config.udp_addr.fam

\* C10 witness: a v4-bound socket was queued a v6-destined packet and then a
\* v4-destined one, and has written.
C10_Witness ==
    /\ is_ipv4(cli_config.udp_addr)
    /\ Len(net_queued) = 2
    /\ is_ipv6(net_queued[1].addr) /\ is_ipv4(net_queued[2].addr)
    /\ Len(written) = 1

\* What the socket was given so far: the packets sent and the one being sent.
OnWire == written \o sink
\* Whether a queued packet can go out of a socket bound to udp_addr at all.
Compatible(item) == ~(cli_config.udp_addr.fam = "V4" /\ item.addr.fam = "V6")

\* C11: address-family mapping.  A packet handed to the socket keeps its packet
\* and port; queued for a v4 address on a socket bound to a v6 address it goes
\* to ::ffff:a.b.c.d, queued for a v6 address it goes to that address, and
\* queued for a v4 address on a socket bound to a v4 address it goes to that
\* address.
C11_AddressMapping ==
    LET kept == SelectSeq(net_queued, Compatible)
    IN  /\ Len(OnWire) <= Len(kept)
        /\ \A i \in DOMAIN OnWire :
             LET q == kept[i].addr
                 w == OnWire[i].addr
             IN  /\ OnWire[i].packet = kept[i].packet
                 /\ w.port = q.port
                 /\ cli_config.udp_addr.fam = "V6" /\ q.fam = "V4" =>
                        /\ w.fam = "V6"
                        /\ w.ip = <<0, 0, 0, 0, 0, 65535,
                                    q.ip[1] * 256 + q.ip[2], q.ip[3] * 256 + q.ip[4]>>
                 /\ q.fam = "V6" => w = q
                 /\ cli_config.udp_addr.fam = "V4" /\ q.fam = "V4" => w = q

\* C11 witness: the socket is bound to a v6 address and has sent the packet
\* queued for 10.0.1.2:33446 to [::ffff:a00:102]:33446.
C11_Witness ==
    /\ cli_config.udp_addr.fam = "V6"
    /\ net_queued = <<[packet |-> "p2", addr |-> PeerB]>>
    /\ written = <<[packet |-> "p2",
                    addr |-> [fam |-> "V6", ip |-> <<0, 0, 0, 0, 0, 65535, 2560, 258>>,
                              port |-> 33446]]>>

Packets(q) == [i \in DOMAIN q |-> q[i].packet]
ToV4(item) == item.addr.fam = "V4"
ToV6(item) == item.addr.fam = "V6"

\* C12 (as claimed): a socket bound to a v6 address drops the packets queued
\* for a v4 address, so it is only ever given those queued for a v6 address.
C12_V6DropsV4 ==
    cli_config.udp_addr.fam = "V6" =>
        LET v6only == SelectSeq(net_queued, ToV6)
        IN  /\ Len(OnWire) <= Len(v6only)
            /\ Packets(OnWire) = SubSeq(Packets(v6only), 1, Len(OnWire))

\* C12 (amended): it is the socket bound to a v4 address that drops, namely the
\* packets queued for a v6 address; a socket bound to a v6 address drops none.
\* A drop is no failure of the writer, which fails only with a send in flight,
\* and loses nothing else: the packets given to the socket and the compatible
\* ones still queued are exactly the compatible ones queued, in order.
C12_DropOnIncompatible ==
    /\ cli_config.udp_addr.fam = "V4" =>
        /\ \A i \in DOMAIN OnWire : OnWire[i].addr.fam = "V4"
        /\ Packets(OnWire) \o Packets(SelectSeq(net_rx, ToV4))
               = Packets(SelectSeq(net_queued, ToV4))
    /\ cli_config.udp_addr.fam = "V6" =>
        Packets(OnWire) \o Packets(net_rx) = Packets(net_queued)
    /\ IsErr(fut.network_writer) => fut.network_writer = Err("send", 0) /\ sink # <<>>

\* C12 witness: bound to a v4 address, the writer dropped the packet queued for
\* [::1]:33447, is still running, and has sent the packet queued after it.
C12_Witness ==
    /\ cli_config.udp_addr.fam = "V4"
    /\ net_queued = <<[packet |-> "p3", addr |-> PeerC], [packet |-> "p1", addr |-> PeerA]>>
    /\ written = <<[packet |-> "p1", addr |-> PeerA]>>
    /\ fut.network_writer = Pending

\* ------------------------------------------------------- version word
\* Package versions tried: small, typical and largest valid components, and
\* the smallest invalid one.
VersionComponents == {0, 7, 42, 999, 1000}
VersionInit ==
    /\ cli_config \in Configs /\ cli_config.udp_addr = NoAddr /\ cli_config.tcp_addrs = 0
    /\ ~cli_config.lan_discovery_enabled
    /\ Entered
    /\ input_limit = MaxInputs
    /\ key_fs = ValidFile(Key(1))
    /\ \E major \in VersionComponents, minor \in VersionComponents,
          patch \in VersionComponents :
         ver = [major |-> major, minor |-> minor, patch |-> patch, out |-> NoVersion]
VersionSpec == VersionInit /\ [][Version]_vars

\* v \div 1000 and v % 1000 of a u32 held as two limbs.
Div1000(v) ==
    LET r == (v.hi % 1000) * Limb + v.lo
    IN  [hi |-> v.hi \div 1000, lo |-> r \div 1000]
Mod1000(v) == ((v.hi % 1000) * Limb + v.lo) % 1000

\* C13: version encoding.  For components below 1000 the word is
\* 3000000000 + major * 1000000 + minor * 1000 + patch computed without u32
\* overflow, its decimal form is 3 followed by nine digits, and
\* ((v / 1000000) mod 1000, (v / 1000) mod 1000, v mod 1000) is the triple; a
\* component of 1000 or more is rejected by its assertion and nothing is
\* encoded.
C13_VersionEncoding ==
    ver.out # NoVersion =>
        IF ver.major < 1000 /\ ver.minor < 1000 /\ ver.patch < 1000
        THEN LET v == ver.out
                 thousands == Div1000(v)
                 millions == Div1000(thousands)
                 billions == Div1000(millions)
             IN  /\ v.res = "ok" /\ ~v.overflow
                 /\ v.hi \in 0..(Limb - 1) /\ v.lo \in 0..(Limb - 1)
                 /\ billions = [hi |-> 0, lo |-> 3]
                 /\ Mod1000(millions) = ver.major
                 /\ Mod1000(thousands) = ver.minor
                 /\ Mod1000(v) = ver.patch
        ELSE /\ ver.out.res \in {"Invalid major version", "Invalid minor version",
                                 "Invalid patch version"}
             /\ ver.out.hi = 0 /\ ver.out.lo = 0

\* C13 witness: version 999.42.7 was encoded as 3999042007 = 61020 * 2^16 + 35287,
\* above 2^31.
C13_Witness ==
    /\ ver.major = 999 /\ ver.minor = 42 /\ ver.patch = 7
    /\ ver.out = [res |-> "ok", hi |-> 61020, lo |-> 35287, overflow |-> FALSE]

\* ------------------------------------------------------- identity keys
\* The ways a configuration names the identity: nothing, a keys file, a secret
\* key.  (The command line does not allow a secret key together with a keys
\* file, and requires one of them; main still covers the case of neither.)
KeyConfigs ==
    {[udp_addr |-> NoAddr, tcp_addrs |-> 0, lan_discovery_enabled |-> FALSE,
      sk |-> id[1], keys_file |-> id[2]] :
        id \in {<<NoKey, FALSE>>, <<NoKey, TRUE>>, <<Key(1), FALSE>>, <<Key(2), FALSE>>}}

\* What may be at the keys_file path when the process starts: nothing, a file
\* that cannot be opened, a key pair, a mismatched pair, and files that are too
\* short or too long.
KeyFiles ==
    {AbsentFile, DeniedFile, ValidFile(Key(1)), ValidFile(Key(2)), MismatchedFile,
     File(<<>>), File(public_key(Key(1))),
     File(SubSeq(ValidFile(Key(1)).bytes, 1, PUBLICKEYBYTES + SECRETKEYBYTES - 1)),
     File(ValidFile(Key(1)).bytes \o <<10>>),
     File(MismatchedFile.bytes \o <<10>>)}

KeyInit ==
    /\ cli_config \in KeyConfigs
    /\ Entered
    /\ input_limit = MaxInputs
    /\ key_fs \in KeyFiles
    /\ ver = PkgVersion
KeyNext == MainKeys \/ Restart
KeySpec == KeyInit /\ [][KeyNext]_vars

\* The starts of the process that went to the keys file for the identity.
FromFile == cli_config.sk = NoKey /\ cli_config.keys_file
KeyFileLen == PUBLICKEYBYTES + SECRETKEYBYTES
IsPair(bytes) ==
    SubSeq(bytes, 1, PUBLICKEYBYTES)
        = public_key(SubSeq(bytes, PUBLICKEYBYTES + 1, PUBLICKEYBYTES + SECRETKEYBYTES))

\* C14: key mismatch is fatal.  Loading a file of 64 bytes whose first 32 are
\* not the public key of its last 32 panics with the key-mismatch message and
\* yields no key pair.
C14_KeyMismatchFatal ==
    FromFile =>
        \A i \in DOMAIN key_log :
            LET e == key_log[i]
            IN  e.before.st = "file" /\ Len(e.before.bytes) = KeyFileLen
                /\ ~IsPair(e.before.bytes) =>
                    /\ e.res = "panic"
                    /\ e.why = "The loaded public key does not correspond to the loaded secret key"
                    /\ e.pk = NoKey /\ e.sk = NoKey
                    /\ (i = Len(key_log) => boot.dht = NoKeys)

\* C14 witness: the keys file holds the public key of one secret key followed
\* by another secret key, and the start on it has panicked.
C14_Witness ==
    /\ FromFile /\ key_fs = MismatchedFile
    /\ Len(key_log) = 1 /\ key_log[1].res = "panic"
    /\ process = <<"panic", "The loaded public key does not correspond to the loaded secret key", 0>>

\* C15 (as claimed): a keys file of any length other than 64 bytes, shorter or
\* longer, is a fatal error: a key pair is loaded only from exactly 64 bytes.
C15_ExactLength ==
    FromFile =>
        \A i \in DOMAIN key_log :
            LET e == key_log[i]
            IN  e.before.st = "file" =>
                    /\ Len(e.before.bytes) # KeyFileLen => e.res = "panic"
                    /\ e.res = "ok" => Len(e.before.bytes) = KeyFileLen

\* What does hold of the length: a file shorter than 64 bytes is fatal, and a
\* loaded pair is the first 64 bytes of the file.
C15_NotShorter ==
    FromFile =>
        \A i \in DOMAIN key_log :
            LET e == key_log[i]
            IN  e.before.st = "file" =>
                    /\ Len(e.before.bytes) < KeyFileLen =>
                           e.res = "panic" /\ e.why = "Failed to read keys from the keys file"
                    /\ e.res = "ok" =>
                           /\ Len(e.before.bytes) >= KeyFileLen
                           /\ e.pk \o e.sk = SubSeq(e.before.bytes, 1, KeyFileLen)

\* C16: load_or_gen_keys persistence.  With no file at the path, a pair that is
\* returned was generated and is in the file as public key then secret key, and
\* the next start on that path returns the same pair; a file that exists is left
\* as it was and nothing is generated; a file that cannot be opened for another
\* reason is fatal and nothing is generated or written.
C16_Persistence ==
    FromFile =>
        \A i \in DOMAIN key_log :
            LET e == key_log[i]
            IN  /\ e.before.st = "absent" /\ e.res = "ok" =>
                    /\ e.generated
                    /\ e.after = File(e.pk \o e.sk)
                    /\ Len(e.pk) = PUBLICKEYBYTES /\ Len(e.sk) = SECRETKEYBYTES
                    /\ i + 1 \in DOMAIN key_log =>
                           /\ key_log[i + 1].res = "ok"
                           /\ key_log[i + 1].pk = e.pk /\ key_log[i + 1].sk = e.sk
                           /\ ~key_log[i + 1].generated
                /\ e.before.st = "file" => e.after = e.before /\ ~e.generated
                /\ e.before.st = "denied" =>
                    /\ e.res = "panic" /\ e.why = "Failed to read the keys file"
                    /\ e.after = e.before /\ ~e.generated
                /\ e.after = IF i = Len(key_log) THEN key_fs ELSE key_log[i + 1].before

\* C16 witness: the first start found no file, generated the pair of secret key
\* 2 and saved it; the second start loaded that pair from the file.
C16_Witness ==
    /\ FromFile /\ Len(key_log) = 2
    /\ key_log[1].before = AbsentFile /\ key_log[1].generated /\ key_log[1].sk = Key(2)
    /\ key_log[2].res = "ok" /\ ~key_log[2].generated /\ key_log[2].sk = Key(2)
    /\ key_fs = ValidFile(Key(2))

\* C17: identity invariant.  Once main has passed its identity block, the
\* public key in use is the one derived from the secret key in use, which is
\* the configured secret key if there is one; with neither a secret key nor a
\* keys file main never gets past the block, and panics.
C17_Identity ==
    /\ boot.pc # "keys" =>
        /\ boot.dht.sk \in SecretKeys
        /\ boot.dht.pk = public_key(boot.dht.sk)
        /\ cli_config.sk # NoKey => boot.dht.sk = cli_config.sk
        /\ cli_config.sk # NoKey \/ cli_config.keys_file
    /\ cli_config.sk = NoKey /\ ~cli_config.keys_file =>
        /\ boot = Boot0
        /\ \A i \in DOMAIN key_log :
             /\ key_log[i].res = "panic"
             /\ key_log[i].why = "Neither secret key nor keys file is specified"

\* C17 witness: started with secret key 2 in the configuration, main has passed
\* the identity block with that key and its public key.
C17_Witness ==
    /\ cli_config.sk = Key(2)
    /\ boot.pc = "run_udp"
    /\ boot.dht = [pk |-> public_key(Key(2)), sk |-> Key(2)]

\* ------------------------------------------------------------- start-up
\* Something was taken from the socket, from a relay connection or from the
\* bridge, or given to the socket.
Processed == sink # <<>> \/ \E i \in 1..Len(hist) : hist[i] # <<>>
BindPanics ==
    {"Failed to bind UDP socket", "set_broadcast call failed",
     "set_multicast_loop_v6 call failed", "Failed to bind TCP listener"}
AllSetUp ==
    /\ boot.dht # NoKeys
    /\ UdpActive => boot.udp_bound
    /\ boot.tcp_bound = cli_config.tcp_addrs

\* C18: start-up failures precede serving.  Nothing is processed, and the root
\* task is not with the runtime, unless the keys were loaded, the UDP socket (if
\* configured) was bound and every configured TCP listener was bound; a bind
\* that fails ends the process during run_udp or run_tcp, with nothing processed
\* and the root task never polled.
C18_StartupPrecedesServing ==
    /\ Processed \/ boot.pc = "serving" \/ future # Pending => boot.pc = "serving" /\ AllSetUp
    /\ process[1] = "panic" /\ process[2] \in BindPanics =>
        /\ boot.pc \in {"run_udp", "run_tcp"}
        /\ ~Processed
        /\ future = Pending
        /\ boot.tcp_bound < cli_config.tcp_addrs \/ ~boot.udp_bound

\* C18 witness: with a UDP address and two TCP addresses, the socket and both
\* listeners are bound and the node has read a datagram and taken an onion
\* request from a relay connection.
C18_Witness ==
    /\ UdpActive /\ cli_config.tcp_addrs = 2
    /\ boot.udp_bound /\ boot.tcp_bound = 2 /\ boot.dht.sk = Key(1)
    /\ Len(datagrams) = 1 /\ Len(tcp_sent) = 1

\* ------------------------------------------- the bridge, many producers
\* Relay connections are the producers of the TCP-to-UDP direction: each sends
\* on the TcpServer's clone of tcp_onion.tx, and the address of an envelope is
\* that of its connection.  Two connections, two payloads each; one more event
\* than elsewhere, so that one connection can send around the other.
Connections == {PeerA, PeerC}
BridgeRequests ==
    {[kind |-> "OnionRequest", payload |-> pl, addr |-> c] :
        pl \in {"P1", "P2"}, c \in Connections}
BridgeInit ==
    /\ cli_config \in Configs /\ cli_config.tcp_addrs = 1
    /\ cli_config.udp_addr \in {NoAddr, V4(<<0, 0, 0, 0>>, 33445)}
    /\ ~cli_config.lan_discovery_enabled
    /\ Entered
    /\ input_limit = MaxInputs + 1
    /\ key_fs = ValidFile(Key(1))
    /\ ver = PkgVersion
BridgeNext ==
    \/ MainKeys
    \/ RunUdp
    \/ RunTcp
    \/ RunRuntime
    \/ \E env \in BridgeRequests : TcpSendOnionRequest(env)
    \/ UdpOnionFuture
    \/ ServerRunFails
    \/ \E i \in ListenerIds : ListenerFails(i)
BridgeSpec == BridgeInit /\ [][BridgeNext]_vars

\* C19: multi-producer bridge ordering.  For every connection, the envelopes of
\* that connection the consumer was yielded, followed by those still queued, are
\* the envelopes that connection sent, in the order it sent them; and the
\* consumer was yielded nothing else: every envelope sent is yielded or queued
\* exactly once.
C19_MultiProducer ==
    LET ch == chan["tcp_onion"]
        got == Items(udp_received)
    IN  /\ \A c \in Connections :
             LET Mine(env) == env.addr = c
             IN  SelectSeq(got, Mine) \o SelectSeq(ch, Mine) = SelectSeq(tcp_sent, Mine)
        /\ \A i \in DOMAIN got : got[i].addr \in Connections
        /\ \A i \in DOMAIN ch : ch[i].addr \in Connections
        /\ Len(got) + Len(ch) = Len(tcp_sent)

\* C19 witness: connection A sent P1, then connection C sent P1, then A sent
\* P2; the consumer was yielded the three in that order.
C19_Witness ==
    /\ tcp_sent = <<[kind |-> "OnionRequest", payload |-> "P1", addr |-> PeerA],
                    [kind |-> "OnionRequest", payload |-> "P1", addr |-> PeerC],
                    [kind |-> "OnionRequest", payload |-> "P2", addr |-> PeerA]>>
    /\ Items(udp_received) = tcp_sent

\* What the fold makes of a queued packet.
Rewritten(item) == [packet |-> item.packet, addr |-> writer_addr(cli_config.udp_addr, item.addr)]
RewrittenAll(q) == [i \in DOMAIN q |-> Rewritten(q[i])]

\* C20: outbound writer order.  What the socket has written, then the packet
\* being written, then the compatible packets still queued are the compatible
\* packets queued, once each and in the order queued; at most one packet is
\* being written, so the next is not started before the previous completed; and
\* a failed write ends the writer, and the UDP unit, with the error of that
\* write, the packet it was writing never counted as written.
C20_WriterOrder ==
    /\ written \o sink \o RewrittenAll(SelectSeq(net_rx, Compatible))
           = RewrittenAll(SelectSeq(net_queued, Compatible))
    /\ Len(sink) <= 1
    /\ IsErr(fut.network_writer) =>
        /\ fut.network_writer = Err("send", 0)
        /\ udp_server_future = Err("send", 0)
        /\ Len(sink) = 1
        /\ ~Running

\* C20 witness: two packets were queued for v4 peers on a socket bound to a v4
\* address; the first was written, and the write of the second failed.
C20_Witness ==
    /\ cli_config.udp_addr.fam = "V4"
    /\ net_queued = <<[packet |-> "p2", addr |-> PeerB], [packet |-> "p1", addr |-> PeerA]>>
    /\ written = <<[packet |-> "p2", addr |-> PeerB]>>
    /\ sink = <<[packet |-> "p1", addr |-> PeerA]>>
    /\ fut.network_writer = Err("send", 0)

\* ------------------------------------------------- closing of the bridge
\* The drain of each direction, by the channel it reads.
DrainOf(ch) == IF ch = "tcp_onion" THEN fut.udp_onion_future ELSE fut.tcp_onion_future
ReceivedOf(ch) == IF ch = "tcp_onion" THEN Items(udp_received) ELSE Items(tcp_received)
SentOn(ch) == IF ch = "tcp_onion" THEN tcp_sent ELSE udp_sent
\* The transport holding the tx of ch is not configured, so no tx of ch exists
\* once main has built the futures.
ClosedFromStart(ch) == IF ch = "tcp_onion" THEN ~TcpActive ELSE ~UdpActive
Ended == process[1] \in {"panic", "exit"}

\* C21 (as claimed): once every send-half of a direction is dropped its drain
\* terminates with success, so no run ends with the drain of a closed direction
\* not having succeeded.
C21_ClosedDrainSucceeds ==
    \A ch \in {"tcp_onion", "udp_onion"} :
        boot.pc = "serving" /\ Ended /\ ClosedFromStart(ch) => DrainOf(ch) = Ok

\* C21 (amended): a drain never ends with an error; it ends with success only
\* in a step taken with no send-half of its direction left and nothing queued,
\* having been yielded everything that was sent; and under fair scheduling the
\* drain of a direction with no send-half does end with success, unless the
\* process ends first and cancels it.
C21_Safety ==
    \A ch \in {"tcp_onion", "udp_onion"} :
        /\ ~IsErr(DrainOf(ch))
        /\ DrainOf(ch) = Ok =>
            /\ ClosedFromStart(ch)
            /\ chan[ch] = <<>>
            /\ ReceivedOf(ch) = SentOn(ch)
C21_Step ==
    \A ch \in {"tcp_onion", "udp_onion"} :
        DrainOf(ch) # Ok /\ DrainOf(ch)' = Ok =>
            /\ DrainOf(ch) = Pending
            /\ ~SendersAlive(ch, fut, tcp_server_futures)
            /\ chan[ch] = <<>>
C21_CleanClose ==
    /\ []C21_Safety
    /\ [][C21_Step]_vars
    /\ \A ch \in {"tcp_onion", "udp_onion"} :
         (Serving /\ ClosedFromStart(ch)) ~> (DrainOf(ch) = Ok \/ Ended)

\* C21 witness: TCP is not configured, so tcp_onion.tx was dropped by run_tcp;
\* the UDP unit's drain of it has ended with success and the unit runs on.
C21_Witness ==
    /\ UdpActive /\ ~TcpActive
    /\ Serving
    /\ fut.udp_onion_future = Ok
    /\ udp_server_future = Pending

\* C22: with exactly one transport configured, while the unit of that transport
\* has not resolved, the drain of the other (the stub) is running and a tx of
\* the channel it drains exists; the stub's drain never ends with success, so
\* the process never exits because of it.
C22_StubOutlivedByActive ==
    /\ TcpStub =>
        /\ udp_server_future = Pending =>
               /\ fut.tcp_onion_future = Pending
               /\ SendersAlive(create_onion_streams.tcp_onion.rx, fut, tcp_server_futures)
        /\ fut.tcp_onion_future # Ok /\ tcp_server_future # Ok
        /\ process[1] # "exit"
    /\ UdpStub =>
        /\ tcp_server_future = Pending =>
               /\ fut.udp_onion_future = Pending
               /\ SendersAlive(create_onion_streams.udp_onion.rx, fut, tcp_server_futures)
        /\ fut.udp_onion_future # Ok /\ udp_server_future # Ok
        /\ process[1] # "exit"

\* C22 witness: only TCP is configured; the TCP unit's own drain has ended (its
\* direction was closed from the start) while its listener runs on, and the UDP
\* stub has discarded a request and is still draining.
C22_Witness ==
    /\ UdpStub /\ Serving
    /\ fut.tcp_onion_future = Ok
    /\ tcp_server_future = Pending
    /\ Len(udp_received) = 1 /\ udp_received[1].by = "discard"
    /\ fut.udp_onion_future = Pending

\* The socket activities of the UDP unit: reader, writer and protocol driver.
SocketActivities == {"network_reader", "network_writer", "server_run"}

\* C23: while the future run_udp returned for a configured UDP address has not
\* resolved, its reader, its writer and server.run() are all running and the
\* select chain has not resolved; once one of them has ended or was dropped, the
\* unit has resolved too, whatever the bridge drain is doing.
C23_NotOnDrainAlone ==
    UdpActive =>
        /\ udp_server_future = Pending =>
               /\ \A n \in SocketActivities : fut[n] = Pending
               /\ udp_select = Pending
        /\ \A n \in SocketActivities :
               fut[n] # Pending => udp_server_future # Pending /\ ~Running

\* C23 witness: both transports are configured, server.run() has failed with
\* the bridge drain still waiting for requests, and the UDP unit has resolved
\* with that failure, the drain dropped.
C23_Witness ==
    /\ UdpActive /\ TcpActive
    /\ fut.server_run = Err("server_run", 0)
    /\ fut.udp_onion_future = Dropped
    /\ udp_server_future = Err("server_run", 0)
    /\ Len(datagrams) = 1

====
